---- MODULE Spec2Model ----
(***************************************************************************)
(* Model of the quote cache (src/storage/redis_client.py, RedisClient) and *)
(* of the opportunity engine (src/processors/arbitrage_calculator.py,      *)
(* ArbitrageCalculator) of the crypto arbitrage monitor.                   *)
(*                                                                         *)
(* Percentages are Python floats in the source; they are modelled as exact *)
(* rationals [n, d] in lowest terms, so rounding is abstracted away.       *)
(* Time is a discrete clock `now`; one tick is one unit of TTL.            *)
(***************************************************************************)
EXTENDS Integers, Sequences, FiniteSets, TLC

(***************************************************************************)
(* Bounds of the model.                                                    *)
(***************************************************************************)
MaxLen == 4        \* longest quote list handed to calculate_opportunities
MaxTime == 2       \* the clock stops at this tick
MaxWrites == 2     \* number of set_price / set_prices_batch / clear_all calls
MaxBatch == 2      \* longest list handed to set_prices_batch
MaxOpps == 3       \* longest list handed to filter_profitable

(***************************************************************************)
(* Input domains.                                                          *)
(***************************************************************************)
Exchanges == {"binance", "bybit", "kucoin"}
Prices == {1, 2, 3}
CacheExchanges == {"binance", "bybit"}
CachePrices == {1, 2}
Ttls == {1, 2}
\* Python's None where a PriceData is expected, and the empty Redis reply.
NoneVal == [none |-> TRUE]
Nil == <<>>

(***************************************************************************)
(* Exact rationals.                                                        *)
(***************************************************************************)
Abs(x) == IF x < 0 THEN -x ELSE x

RECURSIVE GCD(_, _)
GCD(a, b) == IF b = 0 THEN a ELSE GCD(b, a % b)

Rat(n, d) ==
    LET g == GCD(Abs(n), Abs(d))
        s == IF d < 0 THEN -1 ELSE 1
    IN  [n |-> (s * n) \div g, d |-> (s * d) \div g]

RatAdd(a, b) == Rat(a.n * b.d + b.n * a.d, a.d * b.d)
RatSub(a, b) == Rat(a.n * b.d - b.n * a.d, a.d * b.d)
RatMul(a, b) == Rat(a.n * b.n, a.d * b.d)
RatDiv(a, b) == Rat(a.n * b.d, a.d * b.n)
RatLt(a, b) == a.n * b.d < b.n * a.d
RatLeq(a, b) == a.n * b.d <= b.n * a.d
RatEq(a, b) == a.n * b.d = b.n * a.d
FromInt(i) == [n |-> i, d |-> 1]

SeqsUpTo(S, n) == UNION {[1..k -> S] : k \in 0..n}

(***************************************************************************)
(* src/models.py                                                           *)
(***************************************************************************)
PriceData(exchange, symbol, price, timestamp) ==
    [exchange |-> exchange, symbol |-> symbol, price |-> price,
     timestamp |-> timestamp, volume_24h |-> NoneVal]

\* The computation timestamp (default_factory=datetime.utcnow) is left out.
ArbitrageOpportunity(symbol, buy_exchange, sell_exchange, buy_price, sell_price, price_diff, price_diff_pct, estimated_profit_pct) ==
    [symbol |-> symbol, buy_exchange |-> buy_exchange,
     sell_exchange |-> sell_exchange, buy_price |-> buy_price,
     sell_price |-> sell_price, price_diff |-> price_diff,
     price_diff_pct |-> price_diff_pct,
     estimated_profit_pct |-> estimated_profit_pct]

(***************************************************************************)
(* src/config.py                                                           *)
(***************************************************************************)
BYBIT_FEE == Rat(1, 100)
BINANCE_FEE == Rat(1, 100)
KUCOIN_FEE == Rat(1, 100)
DEFAULT_FEE == Rat(1, 100)
MIN_PROFIT_THRESHOLD == Rat(2, 100)

\* settings = Settings(): the global instance, every field at its default.
settings ==
    [BYBIT_FEE |-> BYBIT_FEE,
     BINANCE_FEE |-> BINANCE_FEE,
     KUCOIN_FEE |-> KUCOIN_FEE,
     MIN_PROFIT_THRESHOLD |-> MIN_PROFIT_THRESHOLD]

\* Settings with the three fees taken from the environment.
SettingsWithFees(bybit_fee, binance_fee, kucoin_fee) ==
    [settings EXCEPT !.BYBIT_FEE = bybit_fee,
                     !.BINANCE_FEE = binance_fee,
                     !.KUCOIN_FEE = kucoin_fee]

\* str.lower() on the identifiers of the model.
Lower(s) ==
    CASE s \in {"BINANCE", "Binance"} -> "binance"
      [] s \in {"BYBIT", "ByBit"} -> "bybit"
      [] s \in {"KUCOIN", "KuCoin"} -> "kucoin"
      [] s = "OKX" -> "okx"
      [] OTHER -> s

\* Mutant of get_exchange_fee: fees.get(exchange, 0.01), without lower().
get_exchange_fee_case_sensitive(self, exchange) ==
    CASE exchange = "bybit" -> self.BYBIT_FEE
      [] exchange = "binance" -> self.BINANCE_FEE
      [] exchange = "kucoin" -> self.KUCOIN_FEE
      [] OTHER -> DEFAULT_FEE

\* fees.get(exchange.lower(), 0.01) on the table built from self's fields.
get_exchange_fee(self, exchange) ==
    LET e == Lower(exchange)
    IN  CASE e = "bybit" -> self.BYBIT_FEE
          [] e = "binance" -> self.BINANCE_FEE
          [] e = "kucoin" -> self.KUCOIN_FEE
          [] OTHER -> DEFAULT_FEE

(***************************************************************************)
(* src/processors/arbitrage_calculator.py                                  *)
(***************************************************************************)
\* Mutant of Unique: the values as they are, repeated ones included.
Unique_keep_all(s) == s

\* pandas Series.unique(): the distinct values in order of first appearance.
RECURSIVE Unique(_)
Unique(s) ==
    IF s = <<>> THEN <<>>
    ELSE LET r == Unique(SubSeq(s, 1, Len(s) - 1))
             x == s[Len(s)]
         IN  IF \E i \in 1..Len(r) : r[i] = x THEN r ELSE Append(r, x)

Column(rows, f) == [i \in 1..Len(rows) |-> rows[i][f]]

\* Mutant of Combinations2: combinations_with_replacement(xs, 2).
RECURSIVE Combinations2_with_replacement(_)
Combinations2_with_replacement(xs) ==
    IF xs = <<>> THEN <<>>
    ELSE [j \in 1..Len(xs) |-> <<xs[1], xs[j]>>]
         \o Combinations2_with_replacement(Tail(xs))

\* Mutant of Combinations2: itertools.permutations(xs, 2), every pair in
\* both orders.
Combinations2_both_orders(xs) ==
    LET ij == {<<i, j>> \in (DOMAIN xs) \X (DOMAIN xs) : i # j}
        Rank(p) == (p[1] - 1) * Len(xs) + p[2]
        Nth(k) == CHOOSE p \in ij :
                      Cardinality({q \in ij : Rank(q) < Rank(p)}) = k - 1
    IN  [k \in 1..Cardinality(ij) |-> <<xs[Nth(k)[1]], xs[Nth(k)[2]]>>]

\* itertools.combinations(xs, 2): pairs (xs[i], xs[j]), i < j, in
\* lexicographic order of (i, j).
RECURSIVE Combinations2(_)
Combinations2(xs) ==
    IF Len(xs) < 2 THEN <<>>
    ELSE [j \in 1..(Len(xs) - 1) |-> <<xs[1], xs[j + 1]>>]
         \o Combinations2(Tail(xs))

\* symbol_df[symbol_df["exchange"] == ex]["price"].values[0]
FirstPrice(symbol_df, ex) ==
    LET rows == SelectSeq(symbol_df, LAMBDA r : r.exchange = ex)
    IN  rows[1].price

\* Mutant of BuyOnFirst: the comparison turned round.
BuyOnFirst_flipped(price1, price2) == price1 > price2

\* if price1 < price2: buy on ex1, else buy on ex2
BuyOnFirst(price1, price2) == price1 < price2

\* price_diff_pct = (price_diff / buy_price) * 100
PriceDiffPct(price_diff, buy_price) ==
    RatMul(RatDiv(FromInt(price_diff), FromInt(buy_price)), FromInt(100))

\* Mutant of EstimatedProfitPct: the fees multiplied instead of summed.
EstimatedProfitPct_compounded(price_diff_pct, buy_fee, sell_fee) ==
    RatSub(price_diff_pct, RatMul(buy_fee, sell_fee))

\* total_fees = buy_fee + sell_fee; estimated = price_diff_pct - total_fees
EstimatedProfitPct(price_diff_pct, buy_fee, sell_fee) ==
    LET total_fees == RatAdd(buy_fee, sell_fee)
    IN  RatSub(price_diff_pct, total_fees)

PairOpportunity(symbol, symbol_df, ex1, ex2) ==
    LET price1 == FirstPrice(symbol_df, ex1)
        price2 == FirstPrice(symbol_df, ex2)
        first == BuyOnFirst(price1, price2)
        buy_exchange == IF first THEN ex1 ELSE ex2
        buy_price == IF first THEN price1 ELSE price2
        sell_exchange == IF first THEN ex2 ELSE ex1
        sell_price == IF first THEN price2 ELSE price1
        price_diff == sell_price - buy_price
        price_diff_pct == PriceDiffPct(price_diff, buy_price)
        buy_fee == get_exchange_fee(settings, buy_exchange)
        sell_fee == get_exchange_fee(settings, sell_exchange)
        estimated_profit_pct ==
            EstimatedProfitPct(price_diff_pct, buy_fee, sell_fee)
    IN  ArbitrageOpportunity(symbol, buy_exchange, sell_exchange, buy_price,
                             sell_price, price_diff, price_diff_pct,
                             estimated_profit_pct)

\* The body of the loop over df["symbol"].unique() for one symbol.
SymbolOpportunities(df, symbol) ==
    LET symbol_df == SelectSeq(df, LAMBDA r : r.symbol = symbol)
        exchanges == Unique(Column(symbol_df, "exchange"))
        pairs == Combinations2(exchanges)
    IN  IF Len(symbol_df) < 2 THEN <<>>
        ELSE [i \in 1..Len(pairs) |->
                PairOpportunity(symbol, symbol_df, pairs[i][1], pairs[i][2])]

RECURSIVE Flatten(_)
Flatten(ss) == IF ss = <<>> THEN <<>> ELSE Head(ss) \o Flatten(Tail(ss))

\* Mutant of InsertByProfit: ascending, as without reverse=True.
RECURSIVE InsertByProfit_ascending(_, _)
InsertByProfit_ascending(sorted, x) ==
    IF sorted = <<>> THEN <<x>>
    ELSE IF RatLt(x.estimated_profit_pct, Head(sorted).estimated_profit_pct)
         THEN <<x>> \o sorted
         ELSE <<Head(sorted)>> \o InsertByProfit_ascending(Tail(sorted), x)

\* Insert x behind every element whose profit is >= x's: with the elements
\* taken in list order this is list.sort(key=..., reverse=True), which is
\* stable.
RECURSIVE InsertByProfit(_, _)
InsertByProfit(sorted, x) ==
    IF sorted = <<>> THEN <<x>>
    ELSE IF RatLt(Head(sorted).estimated_profit_pct, x.estimated_profit_pct)
         THEN <<x>> \o sorted
         ELSE <<Head(sorted)>> \o InsertByProfit(Tail(sorted), x)

\* Mutant of SortByProfitDesc: the list as the loops appended it.
SortByProfitDesc_unsorted(opps) == opps

RECURSIVE SortByProfitDesc(_)
SortByProfitDesc(opps) ==
    IF opps = <<>> THEN <<>>
    ELSE InsertByProfit(SortByProfitDesc(SubSeq(opps, 1, Len(opps) - 1)),
                        opps[Len(opps)])

\* The opportunities in the order the loops append them, before the sort.
CollectOpportunities(prices) ==
    LET symbols == Unique(Column(prices, "symbol"))
    IN  Flatten([i \in 1..Len(symbols) |->
                    SymbolOpportunities(prices, symbols[i])])

\* What a Python call leaves behind when it raises KeyError.
KeyError == [raised |-> "KeyError"]

\* Mutant of calculate_opportunities: without the early return, where
\* df["symbol"] on the frame of an empty list raises KeyError.
calculate_opportunities_unguarded(prices) ==
    IF prices = <<>> THEN KeyError
    ELSE SortByProfitDesc(CollectOpportunities(prices))

calculate_opportunities(prices) ==
    IF prices = <<>> THEN <<>>
    ELSE SortByProfitDesc(CollectOpportunities(prices))

\* Settings, as far as filter_profitable reads it: the value of
\* MIN_PROFIT_THRESHOLD taken from the environment, or its default.
Settings(min_profit_threshold) ==
    [settings EXCEPT !.MIN_PROFIT_THRESHOLD = min_profit_threshold]

\* ArbitrageCalculator.__init__: self.settings = settings
ArbitrageCalculator(config) == [settings |-> config]

\* Mutant of filter_profitable: > in place of >=.
filter_profitable_strict(self, opportunities) ==
    SelectSeq(opportunities,
              LAMBDA opp : RatLt(self.settings.MIN_PROFIT_THRESHOLD,
                                 opp.estimated_profit_pct))

\* Mutant of filter_profitable: the comparison turned round.
filter_profitable_below(self, opportunities) ==
    SelectSeq(opportunities,
              LAMBDA opp : RatLeq(opp.estimated_profit_pct,
                                  self.settings.MIN_PROFIT_THRESHOLD))

\* [opp for opp in opportunities
\*  if opp.estimated_profit_pct >= self.settings.MIN_PROFIT_THRESHOLD]
filter_profitable(self, opportunities) ==
    SelectSeq(opportunities,
              LAMBDA opp : RatLeq(self.settings.MIN_PROFIT_THRESHOLD,
                                  opp.estimated_profit_pct))

(***************************************************************************)
(* src/scrapers: the three adapters.  A scraper is named by its            *)
(* exchange_name; what the exchange answered to one request is a response, *)
(* [ok |-> TRUE, price |-> p] or [ok |-> FALSE].                           *)
(***************************************************************************)
Scrapers == {"bybit", "binance", "kucoin"}

\* What a Python call leaves behind when it raises ValueError.
ValueError == [raised |-> "ValueError"]

\* isinstance(result, PriceData)
IsPriceData(result) == "raised" \notin DOMAIN result

\* BaseScraper.format_symbol, overridden by KuCoinScraper.format_symbol.
format_symbol(self, symbol) ==
    IF self = "kucoin" THEN symbol \o "-USDT" ELSE symbol \o "USDT"

\* fetch_price of the three scrapers: the quote is built with
\* symbol=formatted_symbol, and a failed request raises.
fetch_price(self, symbol, response, utcnow) ==
    LET formatted_symbol == format_symbol(self, symbol)
    IN  IF response.ok
        THEN PriceData(self, formatted_symbol, response.price, utcnow)
        ELSE ValueError

\* _fetch_single of BinanceScraper (symbol=formatted_symbol) and of
\* KuCoinScraper (symbol=f"{symbol}USDT").
_fetch_single(self, symbol, response, utcnow) ==
    LET formatted_symbol == format_symbol(self, symbol)
        quoted == IF self = "kucoin" THEN symbol \o "USDT"
                  ELSE formatted_symbol
    IN  IF response.ok
        THEN PriceData(self, quoted, response.price, utcnow)
        ELSE ValueError

\* fetch_all_prices: asyncio.gather(*tasks, return_exceptions=True) over
\* fetch_price (Bybit) or _fetch_single (Binance, KuCoin), one task per
\* symbol, and of the results those that are PriceData, in task order.
fetch_all_prices(self, symbols, responses, utcnow) ==
    LET results == [i \in 1..Len(symbols) |->
                       IF self = "bybit"
                       THEN fetch_price(self, symbols[i], responses[i], utcnow)
                       ELSE _fetch_single(self, symbols[i], responses[i],
                                          utcnow)]
    IN  SelectSeq(results, IsPriceData)

(***************************************************************************)
(* The Redis server, as the client uses it: a keyspace db, a function from *)
(* the keys present to [value, expiry].  A key is gone once the clock has  *)
(* reached its expiry, whether or not it was physically removed.           *)
(***************************************************************************)
Live(db, k, t) == k \in DOMAIN db /\ t < db[k].expiry

\* SETEX key ttl value
Setex(db, k, ttl, value, t) ==
    [x \in DOMAIN db \cup {k} |->
        IF x = k THEN [value |-> value, expiry |-> t + ttl] ELSE db[x]]

\* GET key
Get(db, k, t) == IF Live(db, k, t) THEN db[k].value ELSE Nil

\* KEYS price:*  (every key this client writes has the prefix)
Keys(db, t) == {k \in DOMAIN db : Live(db, k, t)}

\* Mutant of Del: one of the keys only, as delete(keys[0]).
Del_one(db, ks) ==
    IF ks = {} THEN db
    ELSE [x \in DOMAIN db \ {CHOOSE k \in ks : TRUE} |-> db[x]]

\* DEL key [key ...]
Del(db, ks) == [x \in DOMAIN db \ ks |-> db[x]]

(***************************************************************************)
(* src/storage/redis_client.py                                             *)
(***************************************************************************)
CacheSymbols == {"BTCUSDT"}

\* Mutant of _price_key: the symbol alone.
_price_key_symbol_only(exchange, symbol) == "price:" \o symbol

\* f"price:{exchange}:{symbol}"
_price_key(exchange, symbol) == "price:" \o exchange \o ":" \o symbol

\* PriceData.model_dump_json(): the JSON text, as the tuple of its fields.
model_dump_json(p) ==
    <<"json", p.exchange, p.symbol, p.price, p.timestamp, p.volume_24h>>

\* PriceData.model_validate_json()
model_validate_json(v) ==
    [exchange |-> v[2], symbol |-> v[3], price |-> v[4], timestamp |-> v[5],
     volume_24h |-> v[6]]

\* Mutant of set_price: SET without a time to live.
set_price_no_ttl(db, price_data, ttl, t) ==
    LET key == _price_key(price_data.exchange, price_data.symbol)
        value == model_dump_json(price_data)
    IN  [x \in DOMAIN db \cup {key} |->
            IF x = key THEN [value |-> value, expiry |-> 1000000] ELSE db[x]]

\* Mutant of set_price: a stored quote with a newer timestamp is kept.
set_price_if_newer(db, price_data, ttl, t) ==
    LET key == _price_key(price_data.exchange, price_data.symbol)
        value == model_dump_json(price_data)
    IN  IF Live(db, key, t)
           /\ model_validate_json(db[key].value).timestamp > price_data.timestamp
        THEN db
        ELSE Setex(db, key, ttl, value, t)

\* Mutant of set_price: a live key keeps the expiry it has.
set_price_keep_expiry(db, price_data, ttl, t) ==
    LET key == _price_key(price_data.exchange, price_data.symbol)
        value == model_dump_json(price_data)
    IN  IF Live(db, key, t)
        THEN [db EXCEPT ![key] = [value |-> value, expiry |-> db[key].expiry]]
        ELSE Setex(db, key, ttl, value, t)

\* Mutant of set_price: the time to live counted from the quote's timestamp.
set_price_from_observed(db, price_data, ttl, t) ==
    LET key == _price_key(price_data.exchange, price_data.symbol)
        value == model_dump_json(price_data)
    IN  Setex(db, key, ttl, value, price_data.timestamp)

\* set_price: the keyspace after the SETEX.
set_price(db, price_data, ttl, t) ==
    LET key == _price_key(price_data.exchange, price_data.symbol)
        value == model_dump_json(price_data)
    IN  Setex(db, key, ttl, value, t)

\* Mutant of set_prices_batch: pipe.set in place of pipe.setex.
RECURSIVE set_prices_batch_no_ttl(_, _, _, _)
set_prices_batch_no_ttl(db, prices, ttl, t) ==
    IF prices = <<>> THEN db
    ELSE set_prices_batch_no_ttl(set_price_no_ttl(db, Head(prices), ttl, t),
                                 Tail(prices), ttl, t)

\* set_prices_batch: the keyspace after pipe.execute().  The pipeline is a
\* MULTI/EXEC transaction: its SETEX commands are applied in order, as one
\* step.
RECURSIVE set_prices_batch(_, _, _, _)
set_prices_batch(db, prices, ttl, t) ==
    IF prices = <<>> THEN db
    ELSE set_prices_batch(set_price(db, Head(prices), ttl, t), Tail(prices),
                          ttl, t)

\* What a command raises when the server does not answer.
ConnectionError == [raised |-> "ConnectionError"]

\* self.client.ping()
Ping(reach) == IF reach THEN [value |-> TRUE] ELSE ConnectionError

\* Mutant of health_check: no try/except around the ping.
health_check_unguarded(reach) == Ping(reach)

\* health_check: the reply of the ping, False if it raised.
health_check(reach) ==
    LET reply == Ping(reach)
    IN  IF reply = ConnectionError THEN [value |-> FALSE] ELSE reply

\* Mutant of get_price: the key built from the arguments in the wrong order.
get_price_swapped(db, exchange, symbol, t) ==
    LET key == _price_key(symbol, exchange)
        value == Get(db, key, t)
    IN  IF value # Nil THEN model_validate_json(value) ELSE NoneVal

\* get_price: GET, then parse the reply unless it is empty.
get_price(db, exchange, symbol, t) ==
    LET key == _price_key(exchange, symbol)
        value == Get(db, key, t)
    IN  IF value # Nil THEN model_validate_json(value) ELSE NoneVal

\* The quotes the writers put: per key a price-1 quote observed at 1 and a
\* price-2 quote observed at 0, so that either can replace the other.
CacheQuotes ==
    {PriceData(e, s, p, 2 - p) : e \in CacheExchanges, s \in CacheSymbols,
                                 p \in CachePrices}

Ids == CacheExchanges \X CacheSymbols

\* The lists handed to set_prices_batch: no quote twice, the same
\* (exchange, symbol) possibly twice.
Batches ==
    {prices \in SeqsUpTo(CacheQuotes, MaxBatch) :
        \A i, j \in DOMAIN prices : prices[i] = prices[j] => i = j}

(***************************************************************************)
(* State.                                                                  *)
(***************************************************************************)
VARIABLES
    calc_pc,       \* "input": arguments chosen, "done": the call returned
    calc_prices,   \* the list handed to calculate_opportunities
    calc_result,   \* the list it returned
    now,           \* the clock
    store,         \* the Redis keyspace
    writes,        \* number of writing calls made so far
    rd_pc,         \* get_all_latest_prices: "idle", "get", or "done" in the
                   \* state in which the call returns
    rd_keys,       \* the keys KEYS returned that are still to be read
    rd_prices,     \* the list built so far, the result when rd_pc = "done"
    rd_start,      \* history: the clock at the KEYS step
    rd_changed,    \* history: the keys written or deleted since the KEYS step
    rd_clean,      \* history: nothing but one batch happened since KEYS
    rd_batch,      \* history: that batch, its keys and their quotes before
                   \* and after it
    gp_args,       \* get_price: the arguments of the call of the last step
    gp_result,     \* get_price: what that call returned
    cl_pc,         \* clear_all: "idle" or "del"
    cl_keys,       \* clear_all: the keys KEYS returned
    cl_hist,       \* history: "clean" / "dirty" while clear_all runs, without /
                   \* with a put since its KEYS; "deleted" / "empty" once a
                   \* clear_all has returned after its DEL / without one and
                   \* no put was applied since it began; else "none"
    last_put,      \* history: (exchange, symbol) -> the last put of a quote
                   \* with these identifiers that no DEL followed, if any
    put_ids,       \* history: the (exchange, symbol) of the quotes handed to
                   \* the put of the last step
    put_over,      \* history: the live quotes the put of the last step
                   \* replaced, each as [id, timestamp, expiry]
    flt_opps,      \* the list handed to filter_profitable
    flt_calls,     \* the calls of filter_profitable on that list so far, each
                   \* as [threshold, result]
    pd_new,        \* the PriceData an adapter constructed last, if any
    reachable,     \* the Redis server answers the client's commands
    hc_result,     \* health_check: what the call of the last step returned
    xcom,          \* the XCom values calculate_arbitrage pushed in the DAG
                   \* run, by key, if any
    st_hist,       \* history: the snapshots the last two calculate_arbitrage
                   \* tasks loaded, the newer first, each as [prices, opps,
                   \* epoch]
    fee_self,      \* the Settings instance get_exchange_fee is called on
    fee_exchange,  \* get_exchange_fee: the argument of the last call
    fee_result,    \* get_exchange_fee: what that call returned
    ad_call,       \* the last call of a scraper, as [self, op, symbols]
    ad_result,     \* what that call returned: a PriceData, a list of them,
                   \* or ValueError when it raised
    pure,          \* caller -> its call of the calculator in progress, as
                   \* [pc, calls, prices, df, todo, opportunities, result,
                   \* profitable, previous]
    run,           \* the DAG run: task id -> "queued", "running", "success"
    stored,        \* what store_to_timescale loaded and handed to
                   \* insert_prices_batch, if it got that far
    notified       \* what send_notifications handed to the notifier, as
                   \* [individual, summary], if it got that far

calc_vars == <<calc_pc, calc_prices, calc_result>>

flt_vars == <<flt_opps, flt_calls>>

fee_vars == <<fee_self, fee_exchange, fee_result>>

\* What neither the cache nor the calculator nor calculate_arbitrage touches.
ad_vars == <<ad_call, ad_result>>

rest_vars == <<fee_vars, ad_vars, pure>>

drv_vars == <<run, stored, notified>>

task_vars == <<xcom, st_hist, rest_vars, drv_vars>>

\* What the operations of the cache leave alone.

engine_vars == <<calc_vars, flt_vars, pd_new, reachable, task_vars>>

rd_vars == <<rd_pc, rd_keys, rd_prices, rd_start, rd_changed, rd_clean,
             rd_batch>>

cache_vars == <<now, store, writes, rd_pc, rd_keys, rd_prices, rd_start,
                rd_changed, rd_clean, rd_batch, gp_args, gp_result, cl_pc,
                cl_keys, cl_hist, last_put, put_ids, put_over,
                hc_result>>

vars == <<calc_pc, calc_prices, calc_result, now, store, writes, rd_pc,
          rd_keys, rd_prices, rd_start, rd_changed, rd_clean, rd_batch,
          gp_args, gp_result, cl_pc, cl_keys, cl_hist, last_put, put_ids,
          put_over,
          flt_opps,
          flt_calls, pd_new, reachable, hc_result, xcom, st_hist,
          fee_self, fee_exchange, fee_result, ad_call, ad_result,
          pure, run, stored, notified>>

NoPut == [quote |-> NoneVal, at |-> 0, ttl |-> 0]
NoBatch == [keys |-> {}, pre |-> {}, post |-> {}]

CacheStart ==
    /\ now = 0
    /\ store = <<>>
    /\ writes = 0
    /\ rd_pc = "idle"
    /\ rd_keys = <<>>
    /\ rd_prices = <<>>
    /\ rd_start = 0
    /\ rd_changed = {}
    /\ rd_clean = TRUE
    /\ rd_batch = NoBatch
    /\ gp_args = <<>>
    /\ gp_result = NoneVal
    /\ cl_pc = "idle"
    /\ cl_keys = {}
    /\ cl_hist = "none"
    /\ last_put = [id \in Ids |-> NoPut]
    /\ put_ids = {}
    /\ put_over = {}
    /\ reachable = TRUE
    /\ hc_result = NoneVal

CalcIdle ==
    /\ calc_pc = "idle"
    /\ calc_prices = <<>>
    /\ calc_result = <<>>

FilterIdle ==
    /\ flt_opps = <<>>
    /\ flt_calls = <<>>

NothingConstructed == pd_new = NoneVal

FeeIdle ==
    /\ fee_self = settings
    /\ fee_exchange = ""
    /\ fee_result = NoneVal

AdapterIdle == ad_call = NoneVal /\ ad_result = NoneVal

\* The threads that share one ArbitrageCalculator.
Callers == {1, 2}

NotCalled ==
    [pc |-> "idle", calls |-> 0, prices |-> <<>>, df |-> <<>>, todo |-> <<>>,
     opportunities |-> <<>>, result |-> <<>>, profitable |-> <<>>,
     previous |-> NoneVal]

NobodyCalls == pure = [c \in Callers |-> NotCalled]

RestIdle == FeeIdle /\ AdapterIdle /\ NobodyCalls

\* The task ids of the DAG.
Tasks ==
    {"scrape_prices", "calculate_arbitrage", "store_historical",
     "send_notifications"}

RunQueued ==
    /\ run = [task \in Tasks |-> "queued"]
    /\ stored = NoneVal
    /\ notified = NoneVal

TaskIdle == xcom = NoneVal /\ st_hist = <<>> /\ RestIdle /\ RunQueued

(***************************************************************************)
(* The opportunity engine on arbitrary quote lists.                        *)
(***************************************************************************)
CalcQuotes ==
    {PriceData(e, "BTCUSDT", p, 0) : e \in Exchanges, p \in Prices}
        \cup {PriceData(e, "ETHUSDT", p, 0) : e \in CacheExchanges,
                                              p \in CachePrices}

CalcInit ==
    /\ calc_pc = "input"
    /\ calc_prices \in SeqsUpTo(CalcQuotes, MaxLen)
    /\ calc_result = <<>>
    /\ CacheStart
    /\ FilterIdle
    /\ NothingConstructed
    /\ TaskIdle

Calculate ==
    /\ calc_pc = "input"
    /\ calc_pc' = "done"
    /\ calc_result' = calculate_opportunities(calc_prices)
    /\ UNCHANGED calc_prices
    /\ UNCHANGED cache_vars
    /\ UNCHANGED <<flt_vars, pd_new, reachable, task_vars>>

CalcNext == Calculate

SpecCalc == CalcInit /\ [][CalcNext]_vars

(***************************************************************************)
(* filter_profitable on arbitrary opportunity lists, under the configured  *)
(* threshold and under others the environment may set.                     *)
(***************************************************************************)
\* The opportunity of binance quoting buy_price and bybit sell_price.
OppOf(buy_price, sell_price) ==
    PairOpportunity("BTCUSDT",
                    <<PriceData("binance", "BTCUSDT", buy_price, 0),
                      PriceData("bybit", "BTCUSDT", sell_price, 0)>>,
                    "binance", "bybit")

\* Profits -0.02, 0.02 (the default threshold), just below 0.02, 0.06 and 99.98.
FilterOpps ==
    {OppOf(2500, 2500), OppOf(2500, 2501), OppOf(2501, 2502),
     OppOf(2500, 2502), OppOf(1, 2)}

Thresholds == {FromInt(0), MIN_PROFIT_THRESHOLD, Rat(6, 100)}

FilterInit ==
    /\ flt_opps \in SeqsUpTo(FilterOpps, MaxOpps)
    /\ flt_calls = <<>>
    /\ CacheStart
    /\ CalcIdle
    /\ NothingConstructed
    /\ TaskIdle

\* calculator.filter_profitable(opportunities) with MIN_PROFIT_THRESHOLD = t
Filter(t) ==
    /\ Len(flt_calls) < 2
    /\ LET self == ArbitrageCalculator(Settings(t))
       IN  flt_calls' = Append(flt_calls,
                               [threshold |-> t,
                                result |-> filter_profitable(self, flt_opps)])
    /\ UNCHANGED flt_opps
    /\ UNCHANGED cache_vars
    /\ UNCHANGED <<calc_vars, pd_new, reachable, task_vars>>

FilterNext == \E t \in Thresholds : Filter(t)

SpecFilter == FilterInit /\ [][FilterNext]_vars

(***************************************************************************)
(* Both operations of the calculator, called in any order on short lists,  *)
(* the empty ones included.                                                *)
(***************************************************************************)
ShortLen == 2

EngineInit ==
    /\ calc_pc = "input"
    /\ calc_prices \in SeqsUpTo(CalcQuotes, ShortLen)
    /\ calc_result = <<>>
    /\ flt_opps \in SeqsUpTo(FilterOpps, 1)
    /\ flt_calls = <<>>
    /\ CacheStart
    /\ NothingConstructed
    /\ TaskIdle

EngineNext == Calculate \/ FilterNext

SpecEngine == EngineInit /\ [][EngineNext]_vars

(***************************************************************************)
(* The quotes of the module's test block, in any order and any selection,  *)
(* through calculate_opportunities and then filter_profitable.             *)
(***************************************************************************)
test_prices ==
    {PriceData("binance", "BTCUSDT", 45000, 0),
     PriceData("bybit", "BTCUSDT", 45200, 0),
     PriceData("kucoin", "BTCUSDT", 44900, 0),
     PriceData("binance", "ETHUSDT", 2500, 0),
     PriceData("bybit", "ETHUSDT", 2520, 0)}

ExampleInit ==
    /\ calc_pc = "input"
    /\ calc_prices \in {prices \in SeqsUpTo(test_prices, Cardinality(test_prices)) :
            \A i, j \in DOMAIN prices : prices[i] = prices[j] => i = j}
    /\ calc_result = <<>>
    /\ CacheStart
    /\ FilterIdle
    /\ NothingConstructed
    /\ TaskIdle

\* calculator.filter_profitable(opportunities) on what
\* calculate_opportunities returned, with MIN_PROFIT_THRESHOLD = t
FilterCalculated(t) ==
    /\ calc_pc = "done"
    /\ flt_calls = <<>>
    /\ flt_opps' = calc_result
    /\ LET self == ArbitrageCalculator(Settings(t))
       IN  flt_calls' = <<[threshold |-> t,
                           result |-> filter_profitable(self, calc_result)]>>
    /\ UNCHANGED cache_vars
    /\ UNCHANGED <<calc_vars, pd_new, reachable, task_vars>>

ExampleNext == Calculate \/ \E t \in Thresholds : FilterCalculated(t)

SpecExample == ExampleInit /\ [][ExampleNext]_vars

(***************************************************************************)
(* The scrapers called on the monitored coins, every request answered or   *)
(* failed.                                                                 *)
(***************************************************************************)
Coins == {"BTC", "ETH"}
AdapterPrices == {1, 2, 3}

Responses == {[ok |-> TRUE, price |-> p] : p \in AdapterPrices}
                 \cup {[ok |-> FALSE]}

\* Lists of coins, none twice.
CoinLists ==
    {symbols \in SeqsUpTo(Coins, Cardinality(Coins)) :
        \A i, j \in DOMAIN symbols : symbols[i] = symbols[j] => i = j}

AdapterInit ==
    /\ CacheStart
    /\ CalcIdle
    /\ FilterIdle
    /\ NothingConstructed
    /\ TaskIdle

\* await scraper.fetch_price(symbol)
FetchPrice(self, symbol, response) ==
    /\ ad_call' = [self |-> self, op |-> "fetch_price", symbols |-> <<symbol>>]
    /\ ad_result' = fetch_price(self, symbol, response, now)
    /\ UNCHANGED cache_vars
    /\ UNCHANGED <<calc_vars, flt_vars, pd_new, reachable, xcom, st_hist,
                   fee_vars, pure, drv_vars>>

\* await scraper.fetch_all_prices(symbols)
FetchAllPrices(self, symbols, responses) ==
    /\ ad_call' = [self |-> self, op |-> "fetch_all_prices",
                   symbols |-> symbols]
    /\ ad_result' = fetch_all_prices(self, symbols, responses, now)
    /\ UNCHANGED cache_vars
    /\ UNCHANGED <<calc_vars, flt_vars, pd_new, reachable, xcom, st_hist,
                   fee_vars, pure, drv_vars>>

AdapterNext ==
    \/ \E self \in Scrapers, symbol \in Coins, response \in Responses :
           FetchPrice(self, symbol, response)
    \/ \E self \in Scrapers, symbols \in CoinLists :
           \E responses \in [1..Len(symbols) -> Responses] :
               FetchAllPrices(self, symbols, responses)

SpecAdapters == AdapterInit /\ [][AdapterNext]_vars

(***************************************************************************)
(* Two threads calling one ArbitrageCalculator, each call of               *)
(* calculate_opportunities taken one loop iteration at a time, so that the *)
(* calls interleave; filter_profitable follows on the result.              *)
(***************************************************************************)
MaxCalls == 2

\* The lists the callers pass: none, one, two and three quotes, the three
\* also in reverse order.
PureInputs ==
    LET binance == PriceData("binance", "BTCUSDT", 1, 0)
        bybit == PriceData("bybit", "BTCUSDT", 2, 0)
        kucoin == PriceData("kucoin", "BTCUSDT", 2, 0)
    IN  {<<>>, <<binance>>, <<binance, bybit>>, <<binance, bybit, kucoin>>,
         <<kucoin, bybit, binance>>}

\* Mutant of NewList: the list of the call before, as an attribute of the
\* calculator would be.
NewList_kept(left) == left

\* opportunities = []: a list of the call's own, whatever an earlier call
\* left.
NewList(left) == <<>>

\* The iterations of the two nested loops over df, in order: (symbol, ex1,
\* ex2) for every symbol with at least two rows and every pair of its
\* exchanges.
Iterations(df) ==
    LET symbols == Unique(Column(df, "symbol"))
    IN  Flatten([i \in 1..Len(symbols) |->
            LET symbol_df == SelectSeq(df, LAMBDA r : r.symbol = symbols[i])
                pairs == Combinations2(Unique(Column(symbol_df, "exchange")))
            IN  IF Len(symbol_df) < 2 THEN <<>>
                ELSE [k \in 1..Len(pairs) |->
                         <<symbols[i], pairs[k][1], pairs[k][2]>>]])

PureFrame ==
    /\ UNCHANGED cache_vars
    /\ UNCHANGED <<calc_vars, flt_vars, pd_new, reachable, xcom, st_hist,
                   fee_vars, ad_vars, drv_vars>>

\* calculator.calculate_opportunities(prices) up to the loops; an empty list
\* returns at once.
CallCalculate(c, prices) ==
    /\ pure[c].pc \in {"idle", "filtered"}
    /\ pure[c].calls < MaxCalls
    /\ pure' = [pure EXCEPT ![c] =
                   [pc |-> IF prices = <<>> THEN "done" ELSE "loop",
                    calls |-> @.calls + 1,
                    prices |-> prices,
                    df |-> prices,
                    todo |-> Iterations(prices),
                    opportunities |-> NewList(@.opportunities),
                    result |-> <<>>,
                    profitable |-> <<>>,
                    previous |-> IF @.calls = 0 THEN NoneVal
                                 ELSE [prices |-> @.prices,
                                       result |-> @.result,
                                       profitable |-> @.profitable]]]
    /\ PureFrame

\* One iteration: opportunities.append(opportunity)
LoopIteration(c) ==
    /\ pure[c].pc = "loop"
    /\ pure[c].todo # <<>>
    /\ LET it == Head(pure[c].todo)
           symbol_df == SelectSeq(pure[c].df, LAMBDA r : r.symbol = it[1])
           opportunity == PairOpportunity(it[1], symbol_df, it[2], it[3])
       IN  pure' = [pure EXCEPT ![c].todo = Tail(@),
                                ![c].opportunities = Append(@, opportunity)]
    /\ PureFrame

\* opportunities.sort(...); return opportunities
SortAndReturn(c) ==
    /\ pure[c].pc = "loop"
    /\ pure[c].todo = <<>>
    /\ pure' = [pure EXCEPT ![c].pc = "done",
                            ![c].result =
                                SortByProfitDesc(pure[c].opportunities)]
    /\ PureFrame

\* calculator.filter_profitable(opportunities) on the list returned
FilterReturned(c) ==
    /\ pure[c].pc = "done"
    /\ pure' = [pure EXCEPT ![c].pc = "filtered",
                            ![c].profitable =
                                filter_profitable(
                                    ArbitrageCalculator(settings),
                                    pure[c].result)]
    /\ PureFrame

PureNext ==
    \E c \in Callers :
        \/ \E prices \in PureInputs : CallCalculate(c, prices)
        \/ LoopIteration(c)
        \/ SortAndReturn(c)
        \/ FilterReturned(c)

SpecPure == AdapterInit /\ [][PureNext]_vars

(***************************************************************************)
(* get_exchange_fee on identifiers in any casing, under the default fees   *)
(* and under others the environment may set.                               *)
(***************************************************************************)
FeeValues == {Rat(1, 100), Rat(2, 100), Rat(3, 100)}

\* The fee table's keys in three casings, an exchange not in the table in
\* two, and the empty string.
FeeExchanges ==
    {"bybit", "BYBIT", "ByBit", "binance", "BINANCE", "Binance",
     "kucoin", "KUCOIN", "KuCoin", "okx", "OKX", ""}

FeeInit ==
    /\ fee_self \in {SettingsWithFees(b, n, k) : b, n, k \in FeeValues}
    /\ fee_exchange = ""
    /\ fee_result = NoneVal
    /\ CacheStart
    /\ CalcIdle
    /\ FilterIdle
    /\ NothingConstructed
    /\ xcom = NoneVal
    /\ st_hist = <<>>
    /\ AdapterIdle
    /\ NobodyCalls
    /\ RunQueued

\* settings.get_exchange_fee(exchange)
GetExchangeFee(exchange) ==
    /\ fee_exchange' = exchange
    /\ fee_result' = get_exchange_fee(fee_self, exchange)
    /\ UNCHANGED fee_self
    /\ UNCHANGED cache_vars
    /\ UNCHANGED <<calc_vars, flt_vars, pd_new, reachable, xcom, st_hist,
                   ad_vars, pure, drv_vars>>

FeeNext == \E exchange \in FeeExchanges : GetExchangeFee(exchange)

SpecFee == FeeInit /\ [][FeeNext]_vars

(***************************************************************************)
(* The cache under concurrent callers.  Every Redis command is one step.   *)
(* The reply of get_price, and the list get_all_latest_prices returned,    *)
(* are visible in the state in which the call returns; the next step of    *)
(* any caller finds them consumed.                                         *)
(***************************************************************************)
Init == CacheStart /\ CalcIdle /\ FilterIdle /\ NothingConstructed
            /\ TaskIdle

Reading == rd_pc = "get"

Range(f) == {f[i] : i \in DOMAIN f}

IdOf(q) == <<q.exchange, q.symbol>>

KeyOf(q) == _price_key(q.exchange, q.symbol)

\* The quotes stored in db under the keys ks and live at time t.
View(db, ks, t) ==
    {model_validate_json(db[k].value) : k \in {x \in ks : Live(db, x, t)}}

Perms(S) ==
    {f \in [1..Cardinality(S) -> S] : \A i, j \in DOMAIN f : f[i] = f[j] => i = j}

ReplyConsumed ==
    gp_args' = <<>> /\ gp_result' = NoneVal /\ hc_result' = NoneVal

NoPutNow == put_ids' = {} /\ put_over' = {}

ReaderIdle ==
    /\ rd_pc' = "idle"
    /\ rd_keys' = <<>>
    /\ rd_prices' = <<>>
    /\ rd_start' = 0
    /\ rd_changed' = {}
    /\ rd_clean' = TRUE
    /\ rd_batch' = NoBatch

\* What a step of another caller leaves of the reader: the step changes the
\* keys ks (none if ks = {}), lets time pass if ticked, and is the batch
\* `batch` if that is not NoBatch.
ReaderSees(ks, ticked, batch) ==
    IF rd_pc \in {"done", "raised"} THEN ReaderIdle
    ELSE IF ~Reading THEN UNCHANGED rd_vars
    ELSE /\ UNCHANGED <<rd_pc, rd_keys, rd_prices, rd_start>>
         /\ rd_changed' = rd_changed \cup ks
         /\ IF ks = {} /\ ~ticked
            THEN UNCHANGED <<rd_clean, rd_batch>>
            ELSE IF rd_clean /\ rd_batch = NoBatch /\ batch # NoBatch
                 THEN rd_batch' = batch /\ UNCHANGED rd_clean
                 ELSE rd_batch' = NoBatch /\ rd_clean' = FALSE

\* What a put leaves of the history of clear_all.
PutSeen == cl_hist' = IF cl_pc = "del" THEN "dirty" ELSE "none"

\* The last quote of the list with the identifiers id.
LastFor(prices, id) ==
    LET idx == {i \in 1..Len(prices) : IdOf(prices[i]) = id}
    IN  prices[CHOOSE i \in idx : \A j \in idx : j <= i]

\* The history entries of the live quotes a put to ids replaces.
Replaced(ids) ==
    {[id |-> id, timestamp |-> last_put[id].quote.timestamp,
      expiry |-> last_put[id].at + last_put[id].ttl] :
        id \in {x \in ids \cap DOMAIN last_put :
                    /\ last_put[x] # NoPut
                    /\ now < last_put[x].at + last_put[x].ttl}}

\* set_price(price_data, ttl)
SetPrice(q, ttl) ==
    /\ reachable
    /\ writes < MaxWrites
    /\ writes' = writes + 1
    /\ store' = set_price(store, q, ttl, now)
    /\ last_put' = [last_put EXCEPT ![IdOf(q)] =
                        [quote |-> q, at |-> now, ttl |-> ttl]]
    /\ put_ids' = {IdOf(q)}
    /\ put_over' = Replaced({IdOf(q)})
    /\ PutSeen
    /\ ReaderSees({KeyOf(q)}, FALSE, NoBatch)
    /\ ReplyConsumed
    /\ UNCHANGED <<now, cl_pc, cl_keys>>
    /\ UNCHANGED engine_vars

\* set_prices_batch(prices, ttl): the pipeline of SETEX commands, executed
\* as one transaction.  What the caller does around it is not part of it.
BatchCommand(prices, ttl) ==
    LET ks == {KeyOf(prices[i]) : i \in 1..Len(prices)}
        ids == {IdOf(prices[i]) : i \in 1..Len(prices)}
    IN  /\ reachable
        /\ writes < MaxWrites
        /\ writes' = writes + 1
        /\ store' = set_prices_batch(store, prices, ttl, now)
        /\ last_put' = [id \in Ids |->
                           IF id \in ids
                           THEN [quote |-> LastFor(prices, id), at |-> now,
                                 ttl |-> ttl]
                           ELSE last_put[id]]
        /\ put_ids' = ids
        /\ put_over' = Replaced(ids)
        /\ IF prices = <<>> THEN UNCHANGED cl_hist ELSE PutSeen
        /\ ReaderSees(ks, FALSE,
                      IF ks = {} THEN NoBatch
                      ELSE [keys |-> ks, pre |-> View(store, ks, now),
                            post |-> View(store', ks, now)])
        /\ ReplyConsumed
        /\ UNCHANGED <<now, cl_pc, cl_keys>>
        /\ UNCHANGED <<calc_vars, flt_vars, pd_new, reachable>>

\* set_prices_batch(prices, ttl) called on its own.
SetPricesBatch(prices, ttl) ==
    BatchCommand(prices, ttl) /\ UNCHANGED task_vars

\* get_price(exchange, symbol)
GetPrice(exchange, symbol) ==
    /\ gp_args' = <<exchange, symbol>>
    /\ gp_result' = IF reachable THEN get_price(store, exchange, symbol, now)
                    ELSE ConnectionError
    /\ hc_result' = NoneVal
    /\ ReaderSees({}, FALSE, NoBatch)
    /\ NoPutNow
    /\ UNCHANGED <<now, store, writes, cl_pc, cl_keys, cl_hist, last_put>>
    /\ UNCHANGED engine_vars

\* get_all_latest_prices(), the KEYS command; the reply order is arbitrary.
\* What the caller does with a returned list is not part of it.
KeysCommand ==
    /\ rd_pc \in {"idle", "done", "raised"}
    /\ IF reachable
       THEN /\ rd_keys' \in Perms(Keys(store, now))
            /\ rd_pc' = IF rd_keys' = <<>> THEN "done" ELSE "get"
       ELSE /\ rd_keys' = <<>>
            /\ rd_pc' = "raised"
    /\ rd_prices' = <<>>
    /\ rd_start' = now
    /\ rd_changed' = {}
    /\ rd_clean' = TRUE
    /\ rd_batch' = NoBatch
    /\ ReplyConsumed
    /\ NoPutNow
    /\ UNCHANGED <<now, store, writes, cl_pc, cl_keys, cl_hist, last_put>>
    /\ UNCHANGED <<flt_vars, pd_new, reachable>>

\* get_all_latest_prices(), one iteration of the loop over keys.
GetCommand ==
    /\ rd_pc = "get"
    /\ IF reachable
       THEN /\ LET value == Get(store, Head(rd_keys), now)
               IN  rd_prices' = IF value # Nil
                                THEN Append(rd_prices,
                                            model_validate_json(value))
                                ELSE rd_prices
            /\ rd_keys' = Tail(rd_keys)
            /\ rd_pc' = IF rd_keys' = <<>> THEN "done" ELSE "get"
       ELSE /\ rd_prices' = <<>>
            /\ rd_keys' = <<>>
            /\ rd_pc' = "raised"
    /\ ReplyConsumed
    /\ NoPutNow
    /\ UNCHANGED <<now, store, writes, rd_start, rd_changed, rd_clean,
                   rd_batch, cl_pc, cl_keys, cl_hist, last_put>>
    /\ UNCHANGED <<flt_vars, pd_new, reachable>>

\* get_all_latest_prices() called for its result alone.
GetAllKeys == KeysCommand /\ UNCHANGED <<calc_vars, task_vars>>

GetAllGet == GetCommand /\ UNCHANGED <<calc_vars, task_vars>>

\* clear_all(), the KEYS command; without keys there is no DEL.
ClearKeys ==
    /\ reachable
    /\ cl_pc = "idle"
    /\ writes < MaxWrites
    /\ writes' = writes + 1
    /\ cl_keys' = Keys(store, now)
    /\ cl_pc' = IF cl_keys' # {} THEN "del" ELSE "idle"
    /\ cl_hist' = IF cl_keys' # {} THEN "clean" ELSE "empty"
    /\ ReaderSees({}, FALSE, NoBatch)
    /\ ReplyConsumed
    /\ NoPutNow
    /\ UNCHANGED <<now, store, last_put>>
    /\ UNCHANGED engine_vars

\* clear_all(), the DEL command.
ClearDel ==
    /\ reachable
    /\ cl_pc = "del"
    /\ store' = Del(store, cl_keys)
    /\ last_put' = [id \in Ids |->
                       IF _price_key(id[1], id[2]) \in cl_keys THEN NoPut
                       ELSE last_put[id]]
    /\ cl_pc' = "idle"
    /\ cl_keys' = {}
    /\ cl_hist' = IF cl_hist = "clean" THEN "deleted" ELSE "none"
    /\ ReaderSees(cl_keys, FALSE, NoBatch)
    /\ ReplyConsumed
    /\ NoPutNow
    /\ UNCHANGED <<now, writes>>
    /\ UNCHANGED engine_vars

\* Time passes.
Tick ==
    /\ now < MaxTime
    /\ now' = now + 1
    /\ ReaderSees({}, TRUE, NoBatch)
    /\ ReplyConsumed
    /\ NoPutNow
    /\ UNCHANGED <<store, writes, cl_pc, cl_keys, cl_hist, last_put>>
    /\ UNCHANGED engine_vars

Next ==
    \/ \E q \in CacheQuotes, ttl \in Ttls : SetPrice(q, ttl)
    \/ \E prices \in Batches, ttl \in Ttls : SetPricesBatch(prices, ttl)
    \/ \E e \in CacheExchanges, s \in CacheSymbols : GetPrice(e, s)
    \/ GetAllKeys
    \/ GetAllGet
    \/ ClearKeys
    \/ ClearDel
    \/ Tick

Spec == Init /\ [][Next]_vars

(***************************************************************************)
(* The cache client while the connection to the server comes and goes.  A  *)
(* put under an outage raises and changes nothing.                         *)
(***************************************************************************)
\* health_check()
HealthCheck ==
    /\ hc_result' = health_check(reachable)
    /\ gp_args' = <<>>
    /\ gp_result' = NoneVal
    /\ ReaderSees({}, FALSE, NoBatch)
    /\ NoPutNow
    /\ UNCHANGED <<now, store, writes, cl_pc, cl_keys, cl_hist, last_put>>
    /\ UNCHANGED engine_vars

\* The server stops answering, or answers again; it keeps its keys.
Outage ==
    /\ reachable
    /\ reachable' = FALSE
    /\ ReaderSees({}, FALSE, NoBatch)
    /\ ReplyConsumed
    /\ NoPutNow
    /\ UNCHANGED <<now, store, writes, cl_pc, cl_keys, cl_hist, last_put>>
    /\ UNCHANGED <<calc_vars, flt_vars, pd_new, task_vars>>

Recover ==
    /\ ~reachable
    /\ reachable' = TRUE
    /\ ReaderSees({}, FALSE, NoBatch)
    /\ ReplyConsumed
    /\ NoPutNow
    /\ UNCHANGED <<now, store, writes, cl_pc, cl_keys, cl_hist, last_put>>
    /\ UNCHANGED <<calc_vars, flt_vars, pd_new, task_vars>>

HealthNext ==
    \/ \E q \in CacheQuotes, ttl \in Ttls : SetPrice(q, ttl)
    \/ \E e \in CacheExchanges, s \in CacheSymbols : GetPrice(e, s)
    \/ GetAllKeys
    \/ GetAllGet
    \/ HealthCheck
    \/ Outage
    \/ Recover
    \/ Tick

SpecHealth == Init /\ [][HealthNext]_vars

(***************************************************************************)
(* The puts and the reading operations of the client, interleaved.         *)
(***************************************************************************)
ClientNext ==
    \/ \E q \in CacheQuotes, ttl \in Ttls : SetPrice(q, ttl)
    \/ \E prices \in Batches, ttl \in Ttls : SetPricesBatch(prices, ttl)
    \/ \E e \in CacheExchanges, s \in CacheSymbols : GetPrice(e, s)
    \/ GetAllKeys
    \/ GetAllGet
    \/ HealthCheck
    \/ Tick

SpecClient == Init /\ [][ClientNext]_vars

(***************************************************************************)
(* The DAG's calculate_arbitrage task run again and again while the        *)
(* adapters put their last quotes and then stay silent.                    *)
(***************************************************************************)
\* An adapter's put, early enough for the clock to reach its expiry.
AdapterPut(prices, ttl) ==
    /\ now + ttl <= MaxTime
    /\ SetPricesBatch(prices, ttl)

\* The lists get_all_latest_prices can return: one quote per key at most.
Snapshots == SeqsUpTo(CacheQuotes, Cardinality(Ids))

\* calculate_opportunities and filter_profitable at the configured threshold,
\* computed once for every snapshot.
Calculated ==
    {[all_prices |-> all_prices,
      opportunities |-> calculate_opportunities(all_prices)] :
        all_prices \in Snapshots \ {<<>>}}

Profitable ==
    {[all_prices |-> c.all_prices,
      profitable |-> filter_profitable(
          ArbitrageCalculator(Settings(MIN_PROFIT_THRESHOLD)),
          c.opportunities)] : c \in Calculated}

OpportunitiesFor(all_prices) ==
    (CHOOSE c \in Calculated : c.all_prices = all_prices).opportunities

ProfitableFor(all_prices) ==
    (CHOOSE c \in Profitable : c.all_prices = all_prices).profitable

\* calculate_arbitrage once get_all_latest_prices has returned: nothing more
\* on an empty list, else calculate_opportunities, filter_profitable and the
\* XCom push.  The history notes `writes` with the snapshot, or -1 if a key
\* changed while the snapshot was read.
TaskContinues ==
    LET returns == rd_pc' = "done"
        all_prices == rd_prices'
        opportunities == IF all_prices = <<>> THEN <<>>
                         ELSE OpportunitiesFor(all_prices)
        snapshot == [prices |-> Range(all_prices),
                     opps |-> Len(opportunities),
                     epoch |-> IF rd_changed' = {} THEN writes ELSE -1]
    IN  /\ calc_pc' = IF returns THEN "done" ELSE calc_pc
        /\ calc_prices' = IF returns THEN all_prices ELSE calc_prices
        /\ calc_result' = IF returns THEN opportunities ELSE calc_result
        /\ xcom' = IF ~returns THEN xcom
                   ELSE IF all_prices = <<>> THEN NoneVal
                   ELSE [opportunities |-> ProfitableFor(all_prices)]
        /\ st_hist' = IF ~returns THEN st_hist
                      ELSE IF st_hist = <<>> THEN <<snapshot>>
                      ELSE <<snapshot, st_hist[1]>>
        /\ UNCHANGED rest_vars

CalculateArbitrageKeys ==
    KeysCommand /\ TaskContinues /\ UNCHANGED drv_vars

CalculateArbitrageGet ==
    GetCommand /\ TaskContinues /\ UNCHANGED drv_vars

StaleNext ==
    \/ \E prices \in Batches, ttl \in Ttls : AdapterPut(prices, ttl)
    \/ CalculateArbitrageKeys
    \/ CalculateArbitrageGet
    \/ Tick

\* Time passes, and the scheduler runs the task and lets it finish.
SpecStale ==
    /\ Init
    /\ [][StaleNext]_vars
    /\ WF_vars(Tick)
    /\ WF_vars(CalculateArbitrageKeys)
    /\ WF_vars(CalculateArbitrageGet)

(***************************************************************************)
(* One run of the DAG, scrape_prices >> calculate_arbitrage >>             *)
(* [store_historical, send_notifications], while time passes and another   *)
(* scrape cycle may put into the cache.  What the scrapers return is any   *)
(* batch here.                                                             *)
(***************************************************************************)
\* Mutant of upstream: no dependencies between the tasks.
upstream_none(task) == {}

\* scrape_task >> calculate_task >> [store_task, notify_task]
upstream(task) ==
    CASE task = "scrape_prices" -> {}
      [] task = "calculate_arbitrage" -> {"scrape_prices"}
      [] task = "store_historical" -> {"calculate_arbitrage"}
      [] task = "send_notifications" -> {"calculate_arbitrage"}

\* The scheduler starts a queued task once its upstream tasks succeeded.
Schedulable(task) ==
    /\ run[task] = "queued"
    /\ \A u \in upstream(task) : run[u] = "success"

\* The task's state after a step of its get_all_latest_prices.
AfterRead(task) ==
    run' = [run EXCEPT ![task] = IF rd_pc' = "done" THEN "success"
                                 ELSE "running"]

\* scrape_all_exchanges: redis_client.set_prices_batch(all_prices, ttl=300)
ScrapeAllExchanges(all_prices, ttl) ==
    /\ Schedulable("scrape_prices")
    /\ BatchCommand(all_prices, ttl)
    /\ run' = [run EXCEPT !["scrape_prices"] = "success"]
    /\ UNCHANGED <<xcom, st_hist, rest_vars, stored, notified>>

\* calculate_arbitrage, split at the Redis commands of its read.
CalculateArbitrageStarts ==
    /\ Schedulable("calculate_arbitrage")
    /\ KeysCommand
    /\ TaskContinues
    /\ AfterRead("calculate_arbitrage")
    /\ UNCHANGED <<stored, notified>>

CalculateArbitrageReads ==
    /\ run["calculate_arbitrage"] = "running"
    /\ GetCommand
    /\ TaskContinues
    /\ AfterRead("calculate_arbitrage")
    /\ UNCHANGED <<stored, notified>>

\* store_to_timescale: the list it loads goes to insert_prices_batch, unless
\* it is empty.
StoreLoaded ==
    stored' = IF rd_pc' = "done" THEN [all_prices |-> rd_prices'] ELSE stored

StoreToTimescaleStarts ==
    /\ Schedulable("store_historical")
    /\ KeysCommand
    /\ StoreLoaded
    /\ AfterRead("store_historical")
    /\ UNCHANGED <<calc_vars, xcom, st_hist, rest_vars, notified>>

StoreToTimescaleReads ==
    /\ run["store_historical"] = "running"
    /\ GetCommand
    /\ StoreLoaded
    /\ AfterRead("store_historical")
    /\ UNCHANGED <<calc_vars, xcom, st_hist, rest_vars, notified>>

\* send_notifications: xcom_pull of 'opportunities'; nothing more if there
\* are none, else the ones with estimated_profit_pct >= 1.0 go to
\* notify_opportunities and all of them to send_summary.
SendNotifications ==
    /\ Schedulable("send_notifications")
    /\ LET pulled == IF xcom = NoneVal THEN <<>> ELSE xcom.opportunities
           high_value ==
               SelectSeq(pulled,
                         LAMBDA opp : RatLeq(FromInt(1),
                                             opp.estimated_profit_pct))
       IN  notified' = IF pulled = <<>> THEN NoneVal
                       ELSE [individual |-> high_value, summary |-> pulled]
    /\ run' = [run EXCEPT !["send_notifications"] = "success"]
    /\ ReaderSees({}, FALSE, NoBatch)
    /\ ReplyConsumed
    /\ NoPutNow
    /\ UNCHANGED <<now, store, writes, cl_pc, cl_keys, cl_hist, last_put>>
    /\ UNCHANGED <<calc_vars, flt_vars, pd_new, reachable>>
    /\ UNCHANGED <<xcom, st_hist, rest_vars, stored>>

DriverNext ==
    \/ \E all_prices \in Batches, ttl \in Ttls :
           ScrapeAllExchanges(all_prices, ttl)
    \/ CalculateArbitrageStarts
    \/ CalculateArbitrageReads
    \/ StoreToTimescaleStarts
    \/ StoreToTimescaleReads
    \/ SendNotifications
    \/ \E prices \in Batches, ttl \in Ttls : SetPricesBatch(prices, ttl)
    \/ Tick

SpecDriver == Init /\ [][DriverNext]_vars

(***************************************************************************)
(* The scrape task with its adapters: every request of the cycle is        *)
(* answered or failed, and an exchange may fail as a whole.                *)
(***************************************************************************)
\* settings.coin_list
coin_list == <<"BTC", "ETH">>

\* What one exchange does in a cycle: its fetch_all_prices raises, or each
\* of its requests is answered or failed.
ExchangeAnswers ==
    {[up |-> FALSE]}
        \cup {[up |-> TRUE, responses |-> r] :
                 r \in [DOMAIN coin_list -> Responses]}

\* Mutant of scrape_all_exchanges: asyncio.gather without
\* return_exceptions, the first exception propagates.
scrape_all_exchanges_propagating(coins, answers, utcnow) ==
    LET order == <<"bybit", "binance", "kucoin">>
        results == [i \in DOMAIN order |->
                       IF answers[order[i]].up
                       THEN [list |-> fetch_all_prices(
                                          order[i], coins,
                                          answers[order[i]].responses, utcnow)]
                       ELSE ValueError]
        extend(all_prices, result) ==
            IF "list" \in DOMAIN result THEN all_prices \o result.list
            ELSE all_prices
    IN  IF \E i \in DOMAIN order : "list" \notin DOMAIN results[i]
        THEN ValueError
        ELSE [all_prices |->
                 extend(extend(extend(<<>>, results[1]), results[2]),
                        results[3])]

\* _scrape of scrape_all_exchanges, up to the list it hands to
\* set_prices_batch: asyncio.gather(bybit, binance, kucoin,
\* return_exceptions=True), then the results that are lists, flattened in
\* that order; a result that is an Exception is printed and skipped.
scrape_all_exchanges(coins, answers, utcnow) ==
    LET order == <<"bybit", "binance", "kucoin">>
        results == [i \in DOMAIN order |->
                       IF answers[order[i]].up
                       THEN [list |-> fetch_all_prices(
                                          order[i], coins,
                                          answers[order[i]].responses, utcnow)]
                       ELSE ValueError]
        extend(all_prices, result) ==
            IF "list" \in DOMAIN result THEN all_prices \o result.list
            ELSE all_prices
    IN  [all_prices |->
            extend(extend(extend(<<>>, results[1]), results[2]), results[3])]

\* scrape_all_exchanges as the task scrape_prices runs it: the scrapers are
\* called, and what they fetched is put with set_prices_batch; the task
\* fails if the call raises.
ScrapeCycle(answers, ttl) ==
    LET result == scrape_all_exchanges(coin_list, answers, now)
    IN  /\ ad_call' = [self |-> "dag", op |-> "scrape_all_exchanges",
                       symbols |-> coin_list, answers |-> answers]
        /\ IF "raised" \notin DOMAIN result
           THEN /\ BatchCommand(result.all_prices, ttl)
                /\ ad_result' = [prices_count |-> Len(result.all_prices)]
                /\ run' = [run EXCEPT !["scrape_prices"] = "success"]
           ELSE /\ ad_result' = result
                /\ run' = [run EXCEPT !["scrape_prices"] = "failed"]
                /\ ReaderSees({}, FALSE, NoBatch)
                /\ ReplyConsumed
                /\ NoPutNow
                /\ UNCHANGED <<now, store, writes, cl_pc, cl_keys, cl_hist,
                               last_put>>
                /\ UNCHANGED <<calc_vars, flt_vars, pd_new, reachable>>
        /\ UNCHANGED <<xcom, st_hist, fee_vars, pure, stored, notified>>

\* The scheduler starts the task, whatever the exchanges answer.
ScrapePrices ==
    /\ Schedulable("scrape_prices")
    /\ \E answers \in [Scrapers -> ExchangeAnswers], ttl \in Ttls :
           ScrapeCycle(answers, ttl)

ScrapeNext == ScrapePrices \/ Tick

SpecScrape == Init /\ [][ScrapeNext]_vars

(***************************************************************************)
(* Ingestion: an adapter constructs a PriceData from what the exchange     *)
(* sent and puts it into the cache.                                        *)
(***************************************************************************)
RawExchanges == {"", "binance"}
RawSymbols == {"", "BTCUSDT"}
RawPrices == {0, 1}

IngestInit == CacheStart /\ CalcIdle /\ FilterIdle /\ NothingConstructed
            /\ TaskIdle

\* PriceData(exchange=..., symbol=..., price=float(...), timestamp=utcnow()):
\* the fields are typed str, str and float and carry no validator.  The
\* adapter holds one PriceData at a time.
Construct(exchange, symbol, price) ==
    /\ pd_new = NoneVal
    /\ writes < MaxWrites
    /\ pd_new' = PriceData(exchange, symbol, price, now)
    /\ ReplyConsumed
    /\ UNCHANGED <<now, store, writes, rd_vars, cl_pc, cl_keys, cl_hist,
                   last_put, put_ids, put_over>>
    /\ UNCHANGED <<calc_vars, flt_vars, reachable, task_vars>>

\* set_price(price_data, ttl) with the PriceData constructed last.
StoreConstructed(ttl) ==
    /\ pd_new # NoneVal
    /\ reachable
    /\ writes < MaxWrites
    /\ writes' = writes + 1
    /\ store' = set_price(store, pd_new, ttl, now)
    /\ pd_new' = NoneVal
    /\ PutSeen
    /\ ReplyConsumed
    /\ UNCHANGED <<now, rd_vars, cl_pc, cl_keys, last_put, put_ids,
                   put_over>>
    /\ UNCHANGED <<calc_vars, flt_vars, reachable, task_vars>>

IngestNext ==
    \/ \E e \in RawExchanges, s \in RawSymbols, p \in RawPrices :
           Construct(e, s, p)
    \/ \E ttl \in Ttls : StoreConstructed(ttl)
    \/ \E e \in RawExchanges, s \in RawSymbols : GetPrice(e, s)
    \/ Tick

SpecIngest == IngestInit /\ [][IngestNext]_vars

(***************************************************************************)
(* Properties of the quote cache, checked under Spec.                      *)
(***************************************************************************)
KeyOfId(id) == _price_key(id[1], id[2])

\* The quotes of the reader's list stored under the keys ks.
Returned(ks) == {q \in Range(rd_prices) : KeyOf(q) \in ks}

\* C1: batch atomicity.  When get_all_latest_prices returns and a single
\* set_prices_batch call, and nothing else, happened between its KEYS command
\* and its return, the quotes it returns for the keys of the batch are the
\* quotes of these keys either all from before the batch or all from after it.
C1_BatchAtomicity ==
    (rd_pc = "done" /\ rd_clean /\ rd_batch # NoBatch)
        => Returned(rd_batch.keys) \in {rd_batch.pre, rd_batch.post}

\* C7: cache TTL expiry.  When get_all_latest_prices returns, a quote put
\* with TTL d before the call began, and neither replaced nor deleted since,
\* is in the result if less than d has elapsed since the put, and no quote of
\* its key is in the result if more than d had elapsed when the call began.
C7_TtlExpiry ==
    rd_pc = "done" =>
        \A id \in Ids :
            LET p == last_put[id]
            IN  (p # NoPut /\ KeyOfId(id) \notin rd_changed) =>
                    /\ now < p.at + p.ttl => p.quote \in Range(rd_prices)
                    /\ rd_start > p.at + p.ttl =>
                           \A q \in Range(rd_prices) : IdOf(q) # id

\* A read that returns a fresh quote and leaves out one that expired before it
\* began.
C7_Witness ==
    /\ rd_pc = "done"
    /\ \E id \in Ids :
           /\ last_put[id] # NoPut
           /\ KeyOfId(id) \notin rd_changed
           /\ rd_start > last_put[id].at + last_put[id].ttl
    /\ \E id \in Ids :
           /\ last_put[id] # NoPut
           /\ KeyOfId(id) \notin rd_changed
           /\ now < last_put[id].at + last_put[id].ttl
           /\ last_put[id].quote \in Range(rd_prices)

\* C8: get_price(exchange, symbol) returns the quote last put under
\* (exchange, symbol) if the clock has not reached its expiry, and None if
\* there was no put, the key was deleted by clear_all, or the clock has
\* reached the expiry.
C8_GetPrice ==
    gp_args # <<>> =>
        LET p == last_put[gp_args]
        IN  gp_result = IF p # NoPut /\ now < p.at + p.ttl THEN p.quote
                        ELSE NoneVal

\* A hit: get_price returned the quote of the last put.
C8_Witness ==
    /\ gp_args # <<>>
    /\ gp_result # NoneVal
    /\ gp_result = last_put[gp_args].quote

\* The keys under which a quote with the identifiers id is stored.
StoredFor(id) ==
    {k \in DOMAIN store : IdOf(model_validate_json(store[k].value)) = id}

\* C9: per-key last-write-wins.  The keyspace holds at most one entry per
\* (exchange, symbol); it is the quote of the last put applied to these
\* identifiers, whatever the timestamps of the quotes.
C9_LastWriteWins ==
    \A id \in Ids :
        /\ Cardinality(StoredFor(id)) <= 1
        /\ last_put[id] = NoPut => StoredFor(id) = {}
        /\ last_put[id] # NoPut =>
               \E k \in StoredFor(id) :
                   model_validate_json(store[k].value) = last_put[id].quote

\* The put of the last step replaced a live quote by one with an older
\* timestamp.
C9_Witness ==
    \E r \in put_over : last_put[r.id].quote.timestamp < r.timestamp

\* C10: every put resets the expiry.  After a put at time t with TTL d, and
\* until the next put or delete of the key, the key is readable at exactly the
\* times before t + d.
C10_PutResetsExpiry ==
    \A id \in Ids :
        LET p == last_put[id]
        IN  p # NoPut =>
                \A t \in 0..(MaxTime + 3) :
                    (get_price(store, id[1], id[2], t) # NoneVal)
                        <=> (t < p.at + p.ttl)

\* The put of the last step replaced a live quote that had more lifetime left
\* than the new TTL.
C10_Witness ==
    \E r \in put_over : r.expiry > now + last_put[r.id].ttl

\* C11 as amended: the expiry of a cache entry is the time of the put plus
\* the TTL of the put, whatever the timestamp of the stored quote.
C11_ExpiryFromInsertion ==
    \A id \in Ids :
        LET p == last_put[id]
        IN  p # NoPut =>
                /\ KeyOfId(id) \in DOMAIN store
                /\ store[KeyOfId(id)].expiry = p.at + p.ttl

\* A quote observed before its put that is still readable although its
\* timestamp plus the TTL has passed.
C11_Witness ==
    \E id \in Ids :
        LET p == last_put[id]
        IN  /\ p # NoPut
            /\ p.quote.timestamp < p.at
            /\ p.quote.timestamp + p.ttl <= now
            /\ get_price(store, id[1], id[2], now) = p.quote

\* C11 as stated: the expiry of a cache entry is the timestamp of the stored
\* quote plus the TTL of the put.
C11_ExpiryFromObservedAt ==
    \A id \in Ids :
        LET p == last_put[id]
        IN  p # NoPut =>
                /\ KeyOfId(id) \in DOMAIN store
                /\ store[KeyOfId(id)].expiry = p.quote.timestamp + p.ttl

\* A clear_all has returned and no put was applied since it began.
Cleared == cl_hist \in {"deleted", "empty"}

\* A step that is the KEYS command of get_all_latest_prices.
StartsRead == rd_pc \in {"idle", "done"} /\ rd_pc' \in {"get", "done"}

\* C19: clear_all empties the cache.  Once a clear_all has returned and no put
\* was applied since it began, get_price returns None and a call of
\* get_all_latest_prices returns the empty list; that includes a clear_all
\* that found no key.
C19_ClearAll ==
    /\ [](Cleared /\ gp_args # <<>> => gp_result = NoneVal)
    /\ [][(Cleared /\ StartsRead) => (rd_pc' = "done" /\ rd_prices' = <<>>)]_vars

\* get_price misses right after a clear_all that deleted keys, at a time at
\* which no key put so far can have expired.
C19_Witness ==
    /\ cl_hist = "deleted"
    /\ now = 0
    /\ gp_args # <<>>
    /\ gp_result = NoneVal

\* C20: not-found is distinct from unavailable.  health_check returns True
\* while the server answers and False, without raising, while it does not;
\* get_price returns None for an absent key of a server that answers; while
\* the server does not answer get_price returns neither None nor a quote and
\* get_all_latest_prices returns no list: both raise.
C20_NotFoundVsUnavailable ==
    /\ hc_result # NoneVal => hc_result = [value |-> reachable]
    /\ gp_args # <<>> =>
           /\ ~reachable => gp_result = ConnectionError
           /\ (reachable /\ KeyOfId(gp_args) \notin Keys(store, now))
                  => gp_result = NoneVal
    /\ rd_pc = "done" => reachable

\* get_price raises under an outage for a key that is absent.
C20_Witness ==
    /\ ~reachable
    /\ gp_args # <<>>
    /\ gp_result = ConnectionError
    /\ KeyOfId(gp_args) \notin Keys(store, now)

\* Of the last two snapshots, both read after the last put: the newer one
\* holds no quote the older one does not hold, and has no more opportunities.
StaleShrinks ==
    (/\ Len(st_hist) = 2
     /\ st_hist[1].epoch >= 0
     /\ st_hist[1].epoch = st_hist[2].epoch)
    => /\ st_hist[1].prices \subseteq st_hist[2].prices
       /\ st_hist[1].opps <= st_hist[2].opps

\* C18: graceful degradation under staleness.  Once the adapters have stopped
\* putting, the snapshots calculate_arbitrage loads never grow and neither do
\* their opportunity counts, the task keeps returning, and from some time on
\* every snapshot is empty.
C18_StaleDegrades ==
    /\ []StaleShrinks
    /\ []<>(rd_pc = "done" /\ calc_pc = "done")
    /\ <>[](rd_pc = "done" => (rd_prices = <<>> /\ calc_result = <<>>))

\* A snapshot of one quote and no opportunity loaded after a snapshot of two
\* quotes and one opportunity, with no put in between.
C18_Witness ==
    /\ Len(st_hist) = 2
    /\ st_hist[1].epoch >= 1
    /\ st_hist[1].epoch = st_hist[2].epoch
    /\ Cardinality(st_hist[2].prices) = 2
    /\ st_hist[2].opps = 1
    /\ Cardinality(st_hist[1].prices) = 1
    /\ st_hist[1].opps = 0

(***************************************************************************)
(* Properties of the opportunity engine, checked under SpecCalc.           *)
(***************************************************************************)
Returned_opps == Range(calc_result)

\* Exchange e quotes price p for symbol s in the input.
Quoted(e, s, p) ==
    \E i \in DOMAIN calc_prices :
        /\ calc_prices[i].exchange = e
        /\ calc_prices[i].symbol = s
        /\ calc_prices[i].price = p

\* C2: no opportunity for equal prices.  No returned opportunity has
\* price_diff = 0, and two distinct exchanges that quote the same price for a
\* symbol get no opportunity for that symbol.
C2_NoEqualPriceOpportunity ==
    calc_pc = "done" =>
        /\ \A opp \in Returned_opps : opp.price_diff # 0
        /\ \A i, j \in DOMAIN calc_prices :
               (/\ calc_prices[i].symbol = calc_prices[j].symbol
                /\ calc_prices[i].exchange # calc_prices[j].exchange
                /\ calc_prices[i].price = calc_prices[j].price)
               => ~ \E opp \in Returned_opps :
                        /\ opp.symbol = calc_prices[i].symbol
                        /\ opp.buy_exchange = calc_prices[i].exchange
                        /\ opp.sell_exchange = calc_prices[j].exchange
                        /\ opp.buy_price = calc_prices[i].price
                        /\ opp.sell_price = calc_prices[j].price

\* C3: buy/sell ordering.  Every returned opportunity has
\* buy_price <= sell_price and price_diff = sell_price - buy_price >= 0, its
\* buy exchange quoted the buy price and its sell exchange the sell price.
C3_BuySellOrdering ==
    calc_pc = "done" =>
        \A opp \in Returned_opps :
            /\ opp.buy_price <= opp.sell_price
            /\ opp.price_diff = opp.sell_price - opp.buy_price
            /\ opp.price_diff >= 0
            /\ Quoted(opp.buy_exchange, opp.symbol, opp.buy_price)
            /\ Quoted(opp.sell_exchange, opp.symbol, opp.sell_price)

\* An opportunity that buys on the exchange listed second and sells on the one
\* listed first.
C3_Witness ==
    /\ calc_pc = "done"
    /\ \E opp \in Returned_opps :
           /\ opp.buy_price < opp.sell_price
           /\ \E i, j \in DOMAIN calc_prices :
                  /\ i < j
                  /\ calc_prices[i].symbol = opp.symbol
                  /\ calc_prices[j].symbol = opp.symbol
                  /\ calc_prices[i].exchange = opp.sell_exchange
                  /\ calc_prices[j].exchange = opp.buy_exchange

\* The fee of an exchange in hundredths of a percent.
FeeHundredths(e) ==
    LET f == get_exchange_fee(settings, e) IN (f.n * 100) \div f.d

\* C4: fee-adjusted profit formula.  For every returned opportunity
\* price_diff_pct = (sell_price - buy_price) / buy_price * 100 and
\* estimated_profit_pct = price_diff_pct - (fee(buy) + fee(sell)).
C4_ProfitFormula ==
    calc_pc = "done" =>
        \A opp \in Returned_opps :
            LET pct == opp.price_diff_pct
                est == opp.estimated_profit_pct
                fees == FeeHundredths(opp.buy_exchange)
                            + FeeHundredths(opp.sell_exchange)
            IN  /\ pct.n * opp.buy_price
                       = pct.d * (opp.sell_price - opp.buy_price) * 100
                /\ est.n * 100 * pct.d
                       = est.d * (100 * pct.n - fees * pct.d)

\* An opportunity with a price difference.
C4_Witness ==
    /\ calc_pc = "done"
    /\ \E opp \in Returned_opps : opp.price_diff > 0

\* C5: ranking.  The returned list is in non-increasing order of
\* estimated_profit_pct.
C5_Ranking ==
    calc_pc = "done" =>
        \A i \in 1..(Len(calc_result) - 1) :
            RatLeq(calc_result[i + 1].estimated_profit_pct,
                   calc_result[i].estimated_profit_pct)

\* A result the sort had to reorder.
C5_Witness ==
    /\ calc_pc = "done"
    /\ Len(calc_result) >= 3
    /\ calc_result # CollectOpportunities(calc_prices)

\* The order of the identifiers as strings.
SymbolRank(s) == IF s = "BTCUSDT" THEN 1 ELSE 2
ExchangeRank(e) ==
    CASE e = "binance" -> 1
      [] e = "bybit" -> 2
      [] OTHER -> 3

\* C6: deterministic tie-break.  Of two returned opportunities with equal
\* estimated_profit_pct the one with the smaller symbol comes first, and for
\* equal symbols the one with the smaller buy_exchange.  Stated for the
\* opportunities with a price difference only, so that it does not rest on the
\* opportunities C2 is about.
C6_TieBreak ==
    calc_pc = "done" =>
        \A i, j \in DOMAIN calc_result :
            (/\ i < j
             /\ calc_result[i].price_diff > 0
             /\ calc_result[j].price_diff > 0
             /\ RatEq(calc_result[i].estimated_profit_pct,
                      calc_result[j].estimated_profit_pct))
            => \/ SymbolRank(calc_result[i].symbol)
                      < SymbolRank(calc_result[j].symbol)
               \/ /\ calc_result[i].symbol = calc_result[j].symbol
                  /\ ExchangeRank(calc_result[i].buy_exchange)
                         <= ExchangeRank(calc_result[j].buy_exchange)

\* The exchanges with a quote for symbol s in the input.
ExchangesQuoting(s) ==
    {calc_prices[i].exchange :
        i \in {j \in DOMAIN calc_prices : calc_prices[j].symbol = s}}

InputSymbols == {calc_prices[i].symbol : i \in DOMAIN calc_prices}

\* C14: single-exchange symbols excluded.  A symbol with quotes of fewer than
\* two distinct exchanges in the input, several quotes of one exchange
\* included, has no opportunity in the result.
C14_SingleExchangeExcluded ==
    calc_pc = "done" =>
        \A opp \in Returned_opps :
            Cardinality(ExchangesQuoting(opp.symbol)) >= 2

\* A result with opportunities although one symbol of the input has two
\* quotes, both of one exchange.
C14_Witness ==
    /\ calc_pc = "done"
    /\ calc_result # <<>>
    /\ \E s \in InputSymbols :
           /\ Cardinality(ExchangesQuoting(s)) = 1
           /\ Cardinality({i \in DOMAIN calc_prices :
                               calc_prices[i].symbol = s}) >= 2

\* C15: every returned opportunity has buy_exchange # sell_exchange, and both
\* exchanges have a quote for the symbol of the opportunity in the input.
C15_DistinctExchanges ==
    calc_pc = "done" =>
        \A opp \in Returned_opps :
            /\ opp.buy_exchange # opp.sell_exchange
            /\ opp.buy_exchange \in ExchangesQuoting(opp.symbol)
            /\ opp.sell_exchange \in ExchangesQuoting(opp.symbol)

\* Opportunities of two symbols, one of which an exchange of the input does
\* not quote.
C15_Witness ==
    /\ calc_pc = "done"
    /\ \E o1, o2 \in Returned_opps :
           /\ o1.symbol # o2.symbol
           /\ ExchangesQuoting(o1.symbol) # ExchangesQuoting(o2.symbol)

\* The input holds two quotes of one exchange for one symbol with different
\* prices.
ConflictingQuotes ==
    \E i, j \in DOMAIN calc_prices :
        /\ calc_prices[i].exchange = calc_prices[j].exchange
        /\ calc_prices[i].symbol = calc_prices[j].symbol
        /\ calc_prices[i].price # calc_prices[j].price

\* C17: duplicate-input guard.  On an input with two quotes of one
\* (exchange, symbol) with conflicting prices calculate_opportunities does not
\* return an opportunity list: the call ends otherwise than by returning.
C17_DuplicateGuard ==
    ConflictingQuotes => calc_pc # "done"

(***************************************************************************)
(* Properties of filter_profitable, checked under SpecFilter.              *)
(***************************************************************************)
\* The positions of flt_opps whose profit is at least t.
AtLeast(t) ==
    {i \in DOMAIN flt_opps :
        flt_opps[i].estimated_profit_pct.n * t.d
            >= t.n * flt_opps[i].estimated_profit_pct.d}

\* The k-th smallest element of the set of positions S.
Kth(S, k) == CHOOSE i \in S : Cardinality({j \in S : j <= i}) = k

RECURSIVE IsSubseq(_, _)
IsSubseq(a, b) ==
    IF a = <<>> THEN TRUE
    ELSE IF b = <<>> THEN FALSE
    ELSE IF Head(a) = Head(b) THEN IsSubseq(Tail(a), Tail(b))
    ELSE IsSubseq(a, Tail(b))

\* C13: threshold monotonicity.  Of two calls on the same list under
\* thresholds t1 <= t2, the result under t2 is a subsequence of the result
\* under t1 and is not longer.
C13_ThresholdMonotone ==
    \A c1, c2 \in DOMAIN flt_calls :
        RatLeq(flt_calls[c1].threshold, flt_calls[c2].threshold) =>
            /\ IsSubseq(flt_calls[c2].result, flt_calls[c1].result)
            /\ Len(flt_calls[c2].result) <= Len(flt_calls[c1].result)

\* Two calls of which the one under the higher threshold returns a shorter,
\* non-empty list.
C13_Witness ==
    \E c1, c2 \in DOMAIN flt_calls :
        /\ RatLt(flt_calls[c1].threshold, flt_calls[c2].threshold)
        /\ flt_calls[c2].result # <<>>
        /\ Len(flt_calls[c2].result) < Len(flt_calls[c1].result)

(***************************************************************************)
(* Properties of ingestion, checked under SpecIngest.                      *)
(***************************************************************************)
ValidQuote(q) == q.price > 0 /\ q.exchange # "" /\ q.symbol # ""

\* C16: invalid quotes are rejected at construction.  No PriceData with a
\* price <= 0 or an empty exchange or symbol is ever constructed, stored in
\* the cache or returned by it.
C16_InvalidQuotesRejected ==
    /\ pd_new # NoneVal => ValidQuote(pd_new)
    /\ \A k \in DOMAIN store : ValidQuote(model_validate_json(store[k].value))
    /\ gp_result # NoneVal => ValidQuote(gp_result)
(***************************************************************************)
(* Fee lookup.                                                             *)
(***************************************************************************)
\* The spellings of each key of the fee table.
Casings ==
    [bybit |-> {"bybit", "BYBIT", "ByBit"},
     binance |-> {"binance", "BINANCE", "Binance"},
     kucoin |-> {"kucoin", "KUCOIN", "KuCoin"}]

\* C21: get_exchange_fee returns, for any casing of bybit, binance or kucoin,
\* that exchange's configured fee, and for every other identifier the default
\* fee 0.01.
C21_FeeLookup ==
    fee_result # NoneVal =>
        /\ fee_exchange \in Casings.bybit => fee_result = fee_self.BYBIT_FEE
        /\ fee_exchange \in Casings.binance
               => fee_result = fee_self.BINANCE_FEE
        /\ fee_exchange \in Casings.kucoin => fee_result = fee_self.KUCOIN_FEE
        /\ fee_exchange \notin UNION {Casings[k] : k \in DOMAIN Casings}
               => fee_result = Rat(1, 100)

\* An upper-case identifier got a configured fee that is not the default.
C21_Witness ==
    /\ fee_exchange = "BINANCE"
    /\ fee_result = fee_self.BINANCE_FEE
    /\ fee_result = Rat(3, 100)

(***************************************************************************)
(* Empty input.                                                            *)
(***************************************************************************)
\* C22: calculate_opportunities on an empty quote list returns an empty list
\* (and does not raise), and filter_profitable on an empty list returns an
\* empty list.
C22_ZeroInput ==
    /\ (calc_pc = "done" /\ calc_prices = <<>>) => calc_result = <<>>
    /\ flt_opps = <<>> =>
           \A i \in DOMAIN flt_calls : flt_calls[i].result = <<>>

\* Both operations have been called on an empty list.
C22_Witness ==
    /\ calc_pc = "done"
    /\ calc_prices = <<>>
    /\ flt_opps = <<>>
    /\ Len(flt_calls) = 2

(***************************************************************************)
(* The example scenario.                                                   *)
(***************************************************************************)
Scenario == {q \in test_prices : q.symbol = "BTCUSDT"}

Route(opp) == <<opp.buy_exchange, opp.sell_exchange, opp.price_diff>>

\* C23: for the snapshot binance 45000, bybit 45200, kucoin 44900 of BTCUSDT
\* calculate_opportunities returns exactly three opportunities, kucoin ->
\* bybit with price_diff 300 first (price_diff_pct 0.668, estimated profit
\* 0.648 to three places), and filter_profitable at threshold 0.02 returns
\* the same three in the same order.
C23_Example ==
    (calc_pc = "done" /\ Range(calc_prices) = Scenario) =>
        /\ Len(calc_result) = 3
        /\ Route(calc_result[1]) = <<"kucoin", "bybit", 300>>
        /\ Route(calc_result[2]) = <<"binance", "bybit", 200>>
        /\ Route(calc_result[3]) = <<"kucoin", "binance", 100>>
        /\ RatLeq(Rat(6675, 10000), calc_result[1].price_diff_pct)
        /\ RatLt(calc_result[1].price_diff_pct, Rat(6685, 10000))
        /\ RatLeq(Rat(6475, 10000), calc_result[1].estimated_profit_pct)
        /\ RatLt(calc_result[1].estimated_profit_pct, Rat(6485, 10000))
        /\ \A i \in DOMAIN flt_calls :
               flt_calls[i].threshold = MIN_PROFIT_THRESHOLD
                   => flt_calls[i].result = calc_result

\* The scenario went through both operations at threshold 0.02, handed over
\* with kucoin's quote first.
C23_Witness ==
    /\ calc_pc = "done"
    /\ Range(calc_prices) = Scenario
    /\ calc_prices[1].exchange = "kucoin"
    /\ Len(flt_calls) = 1
    /\ flt_calls[1].threshold = MIN_PROFIT_THRESHOLD
    /\ Len(flt_calls[1].result) = 3

(***************************************************************************)
(* Symbol normalization.                                                   *)
(***************************************************************************)
\* The quotes a scraper call returned.
QuotesReturned ==
    IF ad_call = NoneVal THEN {}
    ELSE IF ad_call.op = "fetch_price"
    THEN IF IsPriceData(ad_result) THEN {ad_result} ELSE {}
    ELSE Range(ad_result)

\* The one spelling of a coin's symbol: BTC -> BTCUSDT.
Canonical(coin) == coin \o "USDT"

\* C24: every quote any scraper operation returns for a coin carries the
\* coin's canonical symbol, whichever the exchange.
C24_CanonicalSymbols ==
    \A q \in QuotesReturned :
        q.symbol \in {Canonical(ad_call.symbols[i]) :
                         i \in DOMAIN ad_call.symbols}

(***************************************************************************)
(* The DAG run.                                                            *)
(***************************************************************************)
\* C25: the quotes store_to_timescale hands to long-term storage are the
\* snapshot from which the run's calculate_arbitrage computed its
\* opportunities.
C25_SameSnapshot ==
    run["store_historical"] = "success"
        => Range(stored.all_prices) = Range(calc_prices)

Succeeded(task) == run[task] = "success"

\* The run's opportunities that reach MIN_PROFIT_THRESHOLD.
PassedFilter ==
    SelectSeq(calc_result,
              LAMBDA opp : RatLeq(MIN_PROFIT_THRESHOLD,
                                  opp.estimated_profit_pct))

\* C28: in a DAG run the scrape task has put its quotes before
\* calculate_arbitrage reads, store_historical and send_notifications start
\* only after calculate_arbitrage has completed, and what the notifier gets
\* is what filter_profitable let through of the run's opportunities.
C28_PipelineOrder ==
    /\ run["calculate_arbitrage"] # "queued"
           => Succeeded("scrape_prices") /\ writes >= 1
    /\ run["store_historical"] # "queued" => Succeeded("calculate_arbitrage")
    /\ run["send_notifications"] # "queued"
           => Succeeded("calculate_arbitrage")
    /\ (Succeeded("send_notifications") /\ notified = NoneVal)
           => PassedFilter = <<>>
    /\ notified # NoneVal =>
           /\ Succeeded("send_notifications")
           /\ notified.summary = PassedFilter
           /\ \A i \in DOMAIN notified.individual :
                  \E j \in DOMAIN notified.summary :
                      notified.individual[i] = notified.summary[j]

\* All four tasks succeeded, and the notifier got the run's one opportunity.
C28_Witness ==
    /\ \A task \in Tasks : Succeeded(task)
    /\ Len(calc_result) = 1
    /\ notified # NoneVal
    /\ notified.summary = calc_result

(***************************************************************************)
(* One opportunity per pair of exchanges.                                  *)
(***************************************************************************)
\* The positions of symbol s in the input and in the result.
InputRows(s) == {i \in DOMAIN calc_prices : calc_prices[i].symbol = s}
ResultRows(s) == {i \in DOMAIN calc_result : calc_result[i].symbol = s}

\* The quotes of s in the input have pairwise different prices.
DifferentPrices(s) ==
    \A i, j \in InputRows(s) :
        calc_prices[i].price = calc_prices[j].price => i = j

\* C26: for a symbol quoted by n >= 2 distinct exchanges at pairwise
\* different prices the result holds exactly n(n-1)/2 opportunities, one for
\* each unordered pair of these exchanges and none for a pair twice.
C26_OnePerPair ==
    calc_pc = "done" =>
        \A s \in InputSymbols :
            LET exchanges == ExchangesQuoting(s)
                n == Cardinality(exchanges)
            IN  (n >= 2 /\ DifferentPrices(s)) =>
                    /\ Cardinality(ResultRows(s)) = (n * (n - 1)) \div 2
                    /\ \A a, b \in exchanges :
                           a # b =>
                               Cardinality(
                                   {i \in ResultRows(s) :
                                       {calc_result[i].buy_exchange,
                                        calc_result[i].sell_exchange}
                                           = {a, b}}) = 1

\* BTCUSDT quoted by three exchanges at three prices, three opportunities.
C26_Witness ==
    /\ calc_pc = "done"
    /\ Cardinality(ExchangesQuoting("BTCUSDT")) = 3
    /\ DifferentPrices("BTCUSDT")
    /\ Cardinality(ResultRows("BTCUSDT")) = 3

(***************************************************************************)
(* Purity of the calculator.                                               *)
(***************************************************************************)
Returned_by(c) == pure[c].pc \in {"done", "filtered"}

\* What a call returned does not depend on the calls around it.
SameInSameOut ==
    \A c \in Callers :
        /\ Returned_by(c) =>
               /\ pure[c].result = calculate_opportunities(pure[c].prices)
               /\ \A d \in Callers :
                      (Returned_by(d) /\ pure[d].prices = pure[c].prices)
                          => pure[d].result = pure[c].result
               /\ (pure[c].previous # NoneVal
                      /\ pure[c].previous.prices = pure[c].prices)
                      => pure[c].previous.result = pure[c].result
        /\ pure[c].pc = "filtered" =>
               /\ \A d \in Callers :
                      (pure[d].pc = "filtered"
                          /\ pure[d].prices = pure[c].prices)
                          => pure[d].profitable = pure[c].profitable
               /\ (pure[c].previous # NoneVal
                      /\ pure[c].previous.prices = pure[c].prices)
                      => pure[c].previous.profitable = pure[c].profitable

\* A step inside a call leaves the caller's input list, the list handed to
\* filter_profitable and the cache as they are.
InputsUntouched ==
    \A c \in Callers :
        pure[c].pc # "idle" /\ pure'[c].calls = pure[c].calls =>
            /\ pure'[c].prices = pure[c].prices
            /\ pure[c].pc = "done" => pure'[c].result = pure[c].result
            /\ store' = store

\* C27: calculate_opportunities and filter_profitable leave their input
\* lists and the cache unchanged and keep nothing between calls: a call
\* returns what calculate_opportunities gives for its quotes, the same list
\* in the same order as any other call on the same quotes by this or the
\* other caller, however the calls interleave.
C27_Purity == []SameInSameOut /\ [][InputsUntouched]_vars

\* Both callers are past the loops of interleaved calls on the same three
\* quotes, one of them in its second call after a call on other quotes.
C27_Witness ==
    /\ \A c \in Callers : Returned_by(c) /\ Len(pure[c].result) = 3
    /\ pure[1].prices = pure[2].prices
    /\ pure[1].previous # NoneVal
    /\ Len(pure[1].previous.result) = 1

(***************************************************************************)
(* Frame of the puts.                                                      *)
(***************************************************************************)
\* The entry (value and expiry) the keyspace db holds for (exchange,
\* symbol), if any.
EntryOf(db, id) ==
    LET k == _price_key(id[1], id[2])
    IN  IF k \in DOMAIN db THEN {db[k]} ELSE {}

\* The step is one of get_price, get_all_latest_prices or health_check.
ReadingStep ==
    \/ gp_args' # <<>>
    \/ hc_result' # NoneVal
    \/ rd_pc # "get" /\ rd_pc' \in {"get", "done"}
    \/ rd_pc = "get" /\ rd_keys' # rd_keys

\* C29: a put changes no entry but those of the (exchange, symbol) of its
\* quotes, every other entry keeps its value and expiry, and get_price,
\* get_all_latest_prices and health_check change no entry at all.
C29_PutFrame ==
    [][/\ \A id \in Ids \ put_ids' : EntryOf(store', id) = EntryOf(store, id)
       /\ ReadingStep => store' = store]_vars

\* A put for one (exchange, symbol) while an entry of the other is live.
C29_Witness ==
    /\ put_ids = {<<"binance", "BTCUSDT">>}
    /\ last_put[<<"bybit", "BTCUSDT">>].at < now
    /\ Live(store, _price_key("bybit", "BTCUSDT"), now)
    /\ Live(store, _price_key("binance", "BTCUSDT"), now)


(***************************************************************************)
(* Adapter failure isolation.                                              *)
(***************************************************************************)
\* The requests of a cycle that were answered: scraper and position in
\* coin_list.
Fetched(answers) ==
    {p \in Scrapers \X DOMAIN coin_list :
        answers[p[1]].up /\ answers[p[1]].responses[p[2]].ok}

\* The step in which the task scrape_prices runs.
CycleStep ==
    run["scrape_prices"] = "queued" /\ run'["scrape_prices"] # "queued"

\* C30: whichever requests and whichever exchanges fail in a cycle, the
\* scrape task does not raise, the quotes put into the cache are exactly
\* those of the answered requests, and each of them is live in the cache
\* with the price the exchange answered.
C30_FailureIsolation ==
    [][CycleStep =>
          LET answers == ad_call'.answers
          IN  /\ run'["scrape_prices"] = "success"
              /\ "raised" \notin DOMAIN ad_result'
              /\ ad_result'.prices_count = Cardinality(Fetched(answers))
              /\ put_ids' = {<<p[1], Canonical(coin_list[p[2]])>> :
                                p \in Fetched(answers)}
              /\ \A p \in Fetched(answers) :
                     LET k == _price_key(p[1], Canonical(coin_list[p[2]]))
                     IN  /\ Live(store', k, now)
                         /\ model_validate_json(store'[k].value).price
                                = answers[p[1]].responses[p[2]].price]_vars

\* A cycle in which KuCoin failed as a whole and Binance failed for BTC:
\* the Bybit quotes and the Binance ETH quote are in the cache.
C30_Witness ==
    /\ ad_call # NoneVal
    /\ ad_call.op = "scrape_all_exchanges"
    /\ ~ad_call.answers["kucoin"].up
    /\ ad_call.answers["binance"].up
    /\ ~ad_call.answers["binance"].responses[1].ok
    /\ ad_call.answers["binance"].responses[2].ok
    /\ ad_call.answers["bybit"].up
    /\ \A i \in DOMAIN coin_list : ad_call.answers["bybit"].responses[i].ok
    /\ DOMAIN store = {_price_key("bybit", "BTCUSDT"),
                       _price_key("bybit", "ETHUSDT"),
                       _price_key("binance", "ETHUSDT")}
    /\ run["scrape_prices"] = "success"

====
